---- MODULE Spec2Model ----
(***************************************************************************)
(* Message store of the group assistant bot (src/bot.py): the per-topic    *)
(* conversation logs under chat_storage/, the archived_topics/ area, the   *)
(* topic metadata registry and the handlers that change them.              *)
(*                                                                         *)
(* Representation.  A file is a record [exists, lines]; a line is the      *)
(* sequence of its '|'-separated fields (so "a|b" is <<"a", "b">>), and a  *)
(* message text is the sequence of its lines, each a sequence of           *)
(* '|'-separated segments (so "x\ny|z" is << <<"x">>, <<"y", "z">> >>).    *)
(* Timestamps are whole days; datetime.now() is the variable now.          *)
(* An optional value (None or a value) is a sequence of length 0 or 1.     *)
(***************************************************************************)
EXTENDS Integers, Sequences, FiniteSets, TLC

\* ---------------------------------------------------------------- bounds
\* Number of text messages the transport delivers in one behaviour.
MaxAppends == 2

\* Number of messages of the replay scenario (external ids 101, 102, 103).
ScenarioAppends == 3

\* Values the wall clock (datetime.now(), naive local time) takes, in days.
Clock == {0, 1, 31}

Chats == {42}
\* A group that is not a forum: its messages go to its chat file.
PlainChats == {43}
\* A second forum, whose id is a decimal prefix of the first one's.
NeighbourChats == {4}
Topics == {1, 5}
TopicNames == {"Planning"}

\* ------------------------------------------------------------- constants
days_to_keep == 30

\* message_thread_id of a message outside any topic (None, falsy).
NoTopic == 0

None == <<>>
Some(x) == <<x>>

is_forum(chat_id) == chat_id \in Chats \cup NeighbourChats

\* chat_storage/chat_backup.txt: a file of the active area that is no store. It is kept
\* under a chat id that no chat has.
Backup == <<-1, NoTopic>>

StoreIds == ((Chats \cup NeighbourChats) \X ({NoTopic} \cup Topics))
              \cup (PlainChats \X {NoTopic}) \cup {Backup}
TopicKeys == (Chats \cup NeighbourChats) \X Topics

\* Message ids the transport hands out, in increasing order.
MsgIds == 101..(100 + MaxAppends)
ScenarioIds == 101..(100 + ScenarioAppends)

\* update.message.from_user: a user, or None.
ann == [id |-> 7, username |-> "ann"]

\* The text messages the transport delivers: sender and text.
TextMessages ==
  { [from_user |-> Some(ann), text |-> << <<"hi">> >>],
    [from_user |-> None,      text |-> << <<"hi">> >>],
    [from_user |-> Some(ann), text |-> << <<"a", "b">> >>],
    [from_user |-> Some(ann), text |-> << <<"x">>, <<"y">>, <<"p", "q", "r", "s">> >>],
    [from_user |-> Some(ann), text |-> << <<"hi ">> >>] }

VARIABLES
  platform,             \* "posix" or "windows": decides Path.rename onto an existing file
  now,                  \* datetime.now()
  next_message_id,      \* the transport's next update.message.message_id
  storage_dir,          \* chat_storage/*.txt, by (chat_id, topic_id)
  archived_dir,         \* chat_storage/archived_topics/*.txt, by (chat_id, topic_id)
  topics_metadata,      \* self.topics_metadata, by topic key
  topics_metadata_file, \* chat_storage/topics_metadata.json: absent, complete or truncated
  appended,             \* history: the records store_message wrote, per store, in order
  out,                  \* the result of the last handler
  faulty,               \* the areas of the disk where file operations raise OSError,
                        \* and the names of the store files that cannot be read
  history,              \* history, per topic key: lifecycle event seen, appends since the entry was set
  sweeper               \* the periodic_cleanup job: where it is, and its local variables

vars == <<platform, now, next_message_id, storage_dir, archived_dir,
          topics_metadata, topics_metadata_file, appended, out, faulty, history,
          sweeper>>

\* The areas of the disk: chat_storage/*.txt, chat_storage/archived_topics/*.txt and
\* chat_storage/topics_metadata.json.
Areas == {"store", "archive", "registry"}

\* A file operation (touch, open, rename, unlink) on a file of the area raises OSError.
store_fails    == "store" \in faulty
archive_fails  == "archive" \in faulty
registry_fails == "registry" \in faulty

\* ------------------------------------------------------------------ files
NoFile == [exists |-> FALSE, lines |-> <<>>]
EmptyFile == [exists |-> TRUE, lines |-> <<>>]

touch(f) == IF f.exists THEN f ELSE EmptyFile

get_topic_key(chat_id, topic_id) == <<chat_id, topic_id>>

get_storage_filename(chat_id, topic_id) ==
  IF topic_id # NoTopic THEN <<chat_id, topic_id>> ELSE <<chat_id, NoTopic>>

\* The name of the file of the active area kept under filename.
file_name(filename) ==
  IF filename = Backup THEN "chat_backup.txt"
  ELSE IF filename[2] # NoTopic
    THEN "topic_" \o ToString(filename[1]) \o "_" \o ToString(filename[2]) \o ".txt"
    ELSE "chat_" \o ToString(filename[1]) \o ".txt"

\* open(filename, 'r', encoding='utf-8') or the read raises: the area fails, or this file
\* cannot be read (its permissions, or bytes that are not UTF-8).
read_raises(filename) == store_fails \/ file_name(filename) \in faulty

\* ------------------------------------------------------------------ codec
isoformat(d) == "T" \o ToString(d)
IsIsoFormat(s) == \E d \in Clock : isoformat(d) = s
fromisoformat(s) == CHOOSE d \in Clock : isoformat(d) = s

Numerals == {7} \cup MsgIds \cup ScenarioIds
str(n) == ToString(n)
isdigit(s) == \E n \in Numerals : str(n) = s
\* int(s) raises ValueError
int_raises(s) == ~\E n \in Numerals : str(n) = s
int(s) == CHOOSE n \in Numerals : str(n) = s

\* str.strip() takes the blanks off both ends of the line: off the start of its first
\* field and off the end of its last field. On the strings of the model's texts: "hi "
\* ends in a blank, and none starts with one.
str_lstrip(s) == s
str_rstrip(s) == IF s = "hi " THEN "hi" ELSE s

\* line.strip().split('|')
strip_split(line) ==
  [i \in 1..Len(line) |->
     LET field == IF i = 1 THEN str_lstrip(line[i]) ELSE line[i]
     IN  IF i = Len(line) THEN str_rstrip(field) ELSE field]

\* The lines that f"{timestamp}|{user_id}|{username}|{message_id or 'None'}|{message_text}\n"
\* puts in the file.
encode(timestamp, user_id, username, message_id, message_text) ==
  LET head == << isoformat(timestamp), user_id, username,
                 IF message_id # None /\ message_id[1] # 0
                   THEN str(message_id[1]) ELSE "None" >>
  IN  << head \o message_text[1] >> \o Tail(message_text)

\* --------------------------------------------------------------- documents
\* The mapping without entries: {}.
EmptyRegistry == [k \in TopicKeys |-> None]

\* topics_metadata.json before the first save.
NoDocument == [state |-> "absent", mapping |-> EmptyRegistry]

\* topics_metadata.json after open(file, 'w') and before json.dump has written the last
\* byte: empty, or the start of a JSON object.
Truncated == [state |-> "truncated", mapping |-> EmptyRegistry]

\* The document json.dump(metadata, f) writes.
json_dump(metadata) == [state |-> "complete", mapping |-> metadata]

\* load_topics_metadata(): {} when the file is absent, and {} when json.load raises.
load_topics_metadata(document) ==
  IF document.state = "complete" THEN document.mapping ELSE EmptyRegistry

\* The periodic_cleanup job between two runs.
Idle == [pc |-> "idle"]

\* ------------------------------------------------------------------ Init
Init ==
  /\ platform \in {"posix", "windows"}
  /\ now \in Clock
  /\ next_message_id = 101
  /\ storage_dir = [s \in StoreIds |-> NoFile]
  /\ archived_dir = [k \in TopicKeys |-> NoFile]
  /\ topics_metadata = [k \in TopicKeys |-> None]
  /\ topics_metadata_file = NoDocument
  /\ appended = [s \in StoreIds |-> <<>>]
  /\ out = [op |-> "none"]
  /\ faulty = {}
  /\ history = [k \in TopicKeys |-> [observed |-> FALSE, appends |-> 0]]
  /\ sweeper = Idle

\* The wall clock moves (it is not monotonic: it is set, or local time falls back).
Tick ==
  /\ \E d \in Clock \ {now} : now' = d
  /\ out' = [op |-> "none"]
  /\ UNCHANGED <<platform, sweeper, next_message_id, storage_dir, archived_dir,
                 topics_metadata, topics_metadata_file, appended, faulty, history>>

\* A disk area starts to fail (disk full, read-only remount, permissions) or recovers.
Fault(area) ==
  /\ faulty' = IF area \in faulty THEN faulty \ {area} ELSE faulty \cup {area}
  /\ out' = [op |-> "none"]
  /\ UNCHANGED <<platform, sweeper, now, next_message_id, storage_dir, archived_dir,
                 topics_metadata, topics_metadata_file, appended, history>>

\* ------------------------------------------------------ save_topics_metadata
\* The document after save_topics_metadata() of a mapping: rewritten, or left as it
\* was when the open raises (the exception is caught inside save_topics_metadata).
save_topics_metadata(metadata) ==
  IF registry_fails THEN topics_metadata_file ELSE json_dump(metadata)

\* ------------------------------------------------------------ store_message
\* Mutant of increment_count: a key without an entry gets one, with the message counted.
increment_count_setdefault(metadata, chat_id, topic_id) ==
  LET topic_key == get_topic_key(chat_id, topic_id)
  IN  IF topic_id # NoTopic
        THEN [metadata EXCEPT ![topic_key] =
                IF @ # None THEN Some([@[1] EXCEPT !.message_count = @ + 1])
                            ELSE Some([message_count |-> 1])]
        ELSE metadata

\* The metadata side of store_message: message_count of an existing entry + 1.
increment_count(metadata, chat_id, topic_id) ==
  LET topic_key == get_topic_key(chat_id, topic_id)
  IN  IF topic_id # NoTopic /\ metadata[topic_key] # None
        THEN [metadata EXCEPT ![topic_key] =
                Some([@[1] EXCEPT !.message_count = @ + 1])]
        ELSE metadata

\* The file side of store_message: open(filename, 'a') and write the line.
append_line(dir, chat_id, topic_id, user_id, username, message_text, message_id) ==
  LET filename == get_storage_filename(chat_id, topic_id)
  IN  [dir EXCEPT ![filename] =
         [exists |-> TRUE,
          lines  |-> @.lines \o encode(now, user_id, username, message_id, message_text)]]

\* ------------------------------------------------------------ load_messages
Truthy(opt) == opt # None /\ opt[1] # 0

\* Mutant of is_start_message: 'or' for 'and', so any record with an id starts the replay.
is_start_message_or(message_id_str, from_message_id) ==
  message_id_str # "None" \/ message_id_str = str(from_message_id[1])

\* if message_id_str != 'None' and str(message_id_str) == str(from_message_id)
is_start_message(message_id_str, from_message_id) ==
  message_id_str # "None" /\ message_id_str = str(from_message_id[1])

\* messages.sort(key=lambda x: x['date']): a stable sort.
RECURSIVE insert_by_date(_, _)
insert_by_date(sorted, m) ==
  IF sorted = <<>> THEN <<m>>
  ELSE IF sorted[Len(sorted)].date <= m.date THEN Append(sorted, m)
  ELSE Append(insert_by_date(SubSeq(sorted, 1, Len(sorted) - 1), m), sorted[Len(sorted)])

RECURSIVE insertion_sort(_)
insertion_sort(messages) ==
  IF messages = <<>> THEN <<>>
  ELSE insert_by_date(insertion_sort(SubSeq(messages, 1, Len(messages) - 1)),
                      messages[Len(messages)])

\* Mutant of sort_by_date: the messages are left in file order.
sort_omitted(messages) == messages

sort_by_date(messages) == insertion_sort(messages)

\* The loop over the lines of the file: the messages it appends, in file order.
RECURSIVE scan_lines(_, _, _, _)
scan_lines(lines, cutoff_time, from_message_id, found_start_message) ==
  IF lines = <<>> THEN <<>>
  ELSE
    LET parts == strip_split(Head(lines))
        next(found) == scan_lines(Tail(lines), cutoff_time, from_message_id, found)
    IN
    IF Len(parts) < 4 THEN next(found_start_message)
    ELSE
      LET timestamp_str  == parts[1]
          user_id        == parts[2]
          username       == parts[3]
          message_id_str == IF Len(parts) = 4 THEN "None" ELSE parts[4]
          message_text   == IF Len(parts) = 4 THEN <<parts[4]>>
                                              ELSE SubSeq(parts, 5, Len(parts))
      IN
      IF ~IsIsoFormat(timestamp_str) THEN next(found_start_message)   \* ValueError
      ELSE
        LET msg_time == fromisoformat(timestamp_str)
            looking  == Truthy(from_message_id) /\ ~found_start_message
            is_start == is_start_message(message_id_str, from_message_id)
            found    == found_start_message \/ (looking /\ is_start)
        IN
        IF msg_time < cutoff_time THEN next(found_start_message)
        ELSE IF looking /\ ~is_start THEN next(found_start_message)
        ELSE IF int_raises(user_id) THEN next(found)                    \* ValueError
        ELSE << [ text       |-> message_text,
                  user       |-> username,
                  user_id    |-> int(user_id),
                  date       |-> msg_time,
                  timestamp  |-> timestamp_str,
                  message_id |-> IF message_id_str # "None" /\ isdigit(message_id_str)
                                   THEN Some(int(message_id_str)) ELSE None ] >>
             \o next(found)

\* messages[-limit:]
last_n(messages, limit) ==
  IF Truthy(limit) /\ limit[1] < Len(messages)
    THEN SubSeq(messages, Len(messages) - limit[1] + 1, Len(messages))
    ELSE messages

\* Mutant of load_from: the loop has no try of its own, so a malformed line ends the
\* scan in the outer handler, which returns [].
load_from_raises(file, time, limit, from_message_id) ==
  IF ~file.exists THEN <<>>
  ELSE IF \E i \in 1..Len(file.lines) :
            \/ Len(strip_split(file.lines[i])) < 4
            \/ ~IsIsoFormat(strip_split(file.lines[i])[1])
         THEN <<>>
  ELSE last_n(sort_by_date(scan_lines(file.lines, time - days_to_keep,
                                      from_message_id, from_message_id = None)),
              limit)

\* load_messages on the content of a file, at a given time.
load_from(file, time, limit, from_message_id) ==
  IF ~file.exists THEN <<>>
  ELSE last_n(sort_by_date(scan_lines(file.lines, time - days_to_keep,
                                      from_message_id, from_message_id = None)),
              limit)

load_messages(chat_id, topic_id, limit, from_message_id) ==
  LET file == storage_dir[get_storage_filename(chat_id, topic_id)]
  IN  IF file.exists /\ read_raises(get_storage_filename(chat_id, topic_id))
        THEN <<>>                                       \* open raises: return []
        ELSE load_from(file, now, limit, from_message_id)

\* ----------------------------------------------------- cleanup_old_messages
\* Mutant of is_recent: '>' for '>=', so a record exactly at the cutoff is removed.
is_recent_strict(msg_time, cutoff_time) == msg_time > cutoff_time

\* if msg_time >= cutoff_time
is_recent(msg_time, cutoff_time) == msg_time >= cutoff_time

\* Mutant of cleanup_line: a line that fails to parse is kept and counted as removed.
cleanup_line_counts_malformed(line, cutoff_time, acc) ==
  LET parts == strip_split(line)
      keep  == [acc EXCEPT !.kept_lines = Append(@, line)]
      drop  == [acc EXCEPT !.removed_count = @ + 1]
      both  == [keep EXCEPT !.removed_count = @ + 1]
  IN
  IF Len(parts) < 4 THEN keep
  ELSE IF ~IsIsoFormat(parts[1]) THEN both
  ELSE IF fromisoformat(parts[1]) >= cutoff_time THEN keep
  ELSE drop

\* The body of the loop over the lines, for one line: the lines kept and the number
\* removed so far, after this line.
cleanup_line(line, cutoff_time, acc) ==
  LET parts == strip_split(line)
      keep  == [acc EXCEPT !.kept_lines = Append(@, line)]
      drop  == [acc EXCEPT !.removed_count = @ + 1]
  IN
  IF Len(parts) < 4 THEN keep
  ELSE IF ~IsIsoFormat(parts[1]) THEN keep                              \* ValueError
  ELSE IF is_recent(fromisoformat(parts[1]), cutoff_time) THEN keep
  ELSE drop

\* The loop over the lines: the lines kept, and the number removed.
RECURSIVE cleanup_lines(_, _, _)
cleanup_lines(lines, cutoff_time, acc) ==
  IF lines = <<>> THEN acc
  ELSE cleanup_lines(Tail(lines), cutoff_time, cleanup_line(Head(lines), cutoff_time, acc))

\* Mutant of cleanup_file: the window of the compaction is one day shorter than the
\* window of the scan.
cleanup_file_shorter_window(file, time) ==
  IF ~file.exists THEN [file |-> file, removed_count |-> 0]
  ELSE LET r == cleanup_lines(file.lines, time - days_to_keep + 1,
                               [kept_lines |-> <<>>, removed_count |-> 0])
       IN  [file |-> [exists |-> TRUE, lines |-> r.kept_lines],
            removed_count |-> r.removed_count]

\* cleanup_old_messages on the content of a file: the file it leaves, and what it returns.
cleanup_file(file, time) ==
  IF ~file.exists THEN [file |-> file, removed_count |-> 0]
  ELSE LET r == cleanup_lines(file.lines, time - days_to_keep,
                               [kept_lines |-> <<>>, removed_count |-> 0])
       IN  [file |-> [exists |-> TRUE, lines |-> r.kept_lines],
            removed_count |-> r.removed_count]

\* ------------------------------------------------------------------ handlers
NoResult == [op |-> "none"]

\* Path.rename(target) when the target exists: replaced on POSIX, FileExistsError on Windows.
rename_raises(target) == platform = "windows" /\ target.exists

\* Path.rename between the active and the archived area raises.
move_raises(target) == store_fails \/ archive_fails \/ rename_raises(target)

\* Mutant of new_entry: an entry that exists is updated, not replaced, so it keeps its
\* message_count.
new_entry_keeps_count(chat_id, topic_id, topic_name) ==
  LET topic_key == get_topic_key(chat_id, topic_id)
  IN  [ topic_id      |-> topic_id,
        chat_id       |-> chat_id,
        name          |-> topic_name,
        status        |-> "open",
        created_at    |-> now,
        closed_at     |-> None,
        message_count |-> IF topics_metadata[topic_key] # None
                            THEN topics_metadata[topic_key][1].message_count ELSE 0 ]

\* The entry handle_topic_created and handle_text_message register for a topic.
new_entry(chat_id, topic_id, topic_name) ==
  [ topic_id      |-> topic_id,
    chat_id       |-> chat_id,
    name          |-> topic_name,
    status        |-> "open",
    created_at    |-> now,
    closed_at     |-> None,
    message_count |-> 0 ]

\* Mutant of closed_entry: the closure starts the count of the topic afresh.
closed_entry_resets_count(entry) ==
  [entry EXCEPT !.status = "closed", !.closed_at = Some(now), !.message_count = 0]

\* The entry of a topic after handle_topic_closed.
closed_entry(entry) == [entry EXCEPT !.status = "closed", !.closed_at = Some(now)]

\* Mutant of reopened_entry: the status is set back and closed_at is left as it was.
reopened_entry_keeps_closed_at(entry) == [entry EXCEPT !.status = "open"]

\* The entry of a topic after handle_topic_reopened.
reopened_entry(entry) == [entry EXCEPT !.status = "open", !.closed_at = None]

\* Mutant of handle_topic_created: the file is touched before the entry is set, so a
\* touch that raises leaves the registry as it was.
handle_topic_created_touch_first(chat_id, topic_id, topic_name) ==
  LET topic_key == get_topic_key(chat_id, topic_id)
      filename  == get_storage_filename(chat_id, topic_id)
  IN
  /\ IF store_fails
       THEN UNCHANGED <<topics_metadata, storage_dir, topics_metadata_file>>
       ELSE /\ topics_metadata' = [topics_metadata EXCEPT ![topic_key] =
                                     Some(new_entry(chat_id, topic_id, topic_name))]
            /\ storage_dir' = [storage_dir EXCEPT ![filename] = touch(@)]
            /\ topics_metadata_file' = save_topics_metadata(topics_metadata')
  /\ history' = [history EXCEPT ![topic_key] = [observed |-> TRUE, appends |-> 0]]
  /\ out' = [op |-> "topic_created", store |-> topic_key, name |-> topic_name,
             error |-> store_fails]
  /\ UNCHANGED <<platform, sweeper, now, next_message_id, archived_dir, appended, faulty>>

handle_topic_created(chat_id, topic_id, topic_name) ==
  LET topic_key == get_topic_key(chat_id, topic_id)
      filename  == get_storage_filename(chat_id, topic_id)
  IN
  /\ topics_metadata' = [topics_metadata EXCEPT ![topic_key] =
                           Some(new_entry(chat_id, topic_id, topic_name))]
  /\ IF store_fails
       THEN \* filename.touch() raises: the exception leaves the handler before the save
            UNCHANGED <<storage_dir, topics_metadata_file>>
       ELSE /\ storage_dir' = [storage_dir EXCEPT ![filename] = touch(@)]
            /\ topics_metadata_file' = save_topics_metadata(topics_metadata')
  /\ history' = [history EXCEPT ![topic_key] = [observed |-> TRUE, appends |-> 0]]
  /\ out' = [op |-> "topic_created", store |-> topic_key, name |-> topic_name,
             error |-> store_fails]
  /\ UNCHANGED <<platform, sweeper, now, next_message_id, archived_dir, appended, faulty>>

handle_topic_closed(chat_id, topic_id) ==
  LET topic_key    == get_topic_key(chat_id, topic_id)
      current_file == get_storage_filename(chat_id, topic_id)
      raises       == /\ topics_metadata[topic_key] # None
                      /\ storage_dir[current_file].exists
                      /\ move_raises(archived_dir[topic_key])
  IN
  /\ out' = [op |-> "topic_closed", store |-> topic_key, error |-> raises,
             \* what the handler found: the entry, the active file, the archived file
             found |-> [entry    |-> topics_metadata[topic_key],
                        active   |-> storage_dir[current_file],
                        archived |-> archived_dir[topic_key]]]
  /\ UNCHANGED <<platform, sweeper, now, next_message_id, appended, faulty, history>>
  /\ IF topics_metadata[topic_key] # None
       THEN
         /\ topics_metadata' = [topics_metadata EXCEPT ![topic_key] =
              Some(closed_entry(@[1]))]
         /\ IF storage_dir[current_file].exists
              THEN IF raises
                     THEN \* the exception leaves the handler before the save
                          UNCHANGED <<storage_dir, archived_dir, topics_metadata_file>>
                     ELSE /\ archived_dir' = [archived_dir EXCEPT ![topic_key] =
                                                storage_dir[current_file]]
                          /\ storage_dir' = [storage_dir EXCEPT ![current_file] = NoFile]
                          /\ topics_metadata_file' = save_topics_metadata(topics_metadata')
              ELSE /\ UNCHANGED <<storage_dir, archived_dir>>
                   /\ topics_metadata_file' = save_topics_metadata(topics_metadata')
       ELSE
         /\ topics_metadata_file' = save_topics_metadata(topics_metadata)
         /\ UNCHANGED <<topics_metadata, storage_dir, archived_dir>>

handle_topic_reopened(chat_id, topic_id) ==
  LET topic_key    == get_topic_key(chat_id, topic_id)
      current_file == get_storage_filename(chat_id, topic_id)
      raises       == /\ topics_metadata[topic_key] # None
                      /\ IF archived_dir[topic_key].exists
                           THEN move_raises(storage_dir[current_file])
                           ELSE store_fails
  IN
  /\ out' = [op |-> "topic_reopened", store |-> topic_key, error |-> raises,
             \* an archived file was there to be moved back
             restored |-> topics_metadata[topic_key] # None /\ archived_dir[topic_key].exists]
  /\ UNCHANGED <<platform, sweeper, now, next_message_id, appended, faulty, history>>
  /\ IF topics_metadata[topic_key] # None
       THEN
         /\ topics_metadata' = [topics_metadata EXCEPT ![topic_key] =
              Some(reopened_entry(@[1]))]
         /\ IF raises
              THEN UNCHANGED <<storage_dir, archived_dir, topics_metadata_file>>
              ELSE IF archived_dir[topic_key].exists
                THEN /\ storage_dir' = [storage_dir EXCEPT ![current_file] =
                                          archived_dir[topic_key]]
                     /\ archived_dir' = [archived_dir EXCEPT ![topic_key] = NoFile]
                     /\ topics_metadata_file' = save_topics_metadata(topics_metadata')
                ELSE /\ storage_dir' = [storage_dir EXCEPT ![current_file] = touch(@)]
                     /\ UNCHANGED archived_dir
                     /\ topics_metadata_file' = save_topics_metadata(topics_metadata')
       ELSE
         /\ topics_metadata_file' = save_topics_metadata(topics_metadata)
         /\ UNCHANGED <<topics_metadata, storage_dir, archived_dir>>

\* A text message in chat_id with message_thread_id thread_id (NoTopic when absent),
\* from m.from_user, with text m.text; the whole handler, store_message included.
handle_text_message(chat_id, thread_id, m) ==
  LET general   == thread_id = NoTopic /\ is_forum(chat_id)
      topic_id  == IF general THEN 1 ELSE thread_id
      filename  == get_storage_filename(chat_id, topic_id)
      topic_key == get_topic_key(chat_id, topic_id)
      is_new    == thread_id = NoTopic /\ ~storage_dir[filename].exists
      \* filename.touch() raises: the handler ends before store_message
      touch_raises == is_new /\ store_fails
      \* the file the handler touches before it stores the message
      dir1      == IF is_new THEN [storage_dir EXCEPT ![filename] = EmptyFile]
                             ELSE storage_dir
      registers == general /\ is_new /\ topics_metadata[topic_key] = None
      metadata1 == IF registers
                     THEN [topics_metadata EXCEPT ![topic_key] =
                             Some(new_entry(chat_id, topic_id, "General"))]
                     ELSE topics_metadata
      user_id    == IF m.from_user # None THEN str(m.from_user[1].id) ELSE "bot"
      username   == IF m.from_user # None THEN m.from_user[1].username ELSE "Bot"
      message_id == Some(next_message_id)
      metadata2  == increment_count(metadata1, chat_id, topic_id)
      \* open(filename, 'a') raises: store_message logs the error and returns
      write_raises == store_fails
      record     == [ timestamp   |-> now,
                      author_id   |-> user_id,
                      author_name |-> username,
                      external_id |-> message_id,
                      text        |-> m.text ]
      seen(h)    == IF topic_id # NoTopic
                      THEN [h EXCEPT ![topic_key].observed = TRUE] ELSE h
  IN
  /\ next_message_id' = next_message_id + 1
  /\ UNCHANGED <<platform, sweeper, now, archived_dir, faulty>>
  /\ IF touch_raises
       THEN /\ out' = [op |-> "record_lost", store |-> filename]
            /\ history' = seen(history)
            /\ UNCHANGED <<topics_metadata, topics_metadata_file, storage_dir, appended>>
       ELSE
         /\ topics_metadata' = metadata2
         /\ topics_metadata_file' = IF metadata2 # topics_metadata
                                      THEN save_topics_metadata(metadata2)
                                      ELSE topics_metadata_file
         /\ IF write_raises
              THEN /\ storage_dir' = dir1
                   /\ out' = [op |-> "record_lost", store |-> filename]
                   /\ history' = seen(history)
                   /\ UNCHANGED appended
              ELSE /\ storage_dir' = append_line(dir1, chat_id, topic_id, user_id,
                                                 username, m.text, message_id)
                   /\ appended' = [appended EXCEPT ![filename] = Append(@, record)]
                   /\ out' = [op |-> "record", store |-> filename, record |-> record]
                   /\ history' =
                        IF topic_id # NoTopic
                          THEN [history EXCEPT ![topic_key] =
                                  [observed |-> TRUE,
                                   appends  |-> (IF registers THEN 0 ELSE @.appends) + 1]]
                          ELSE history

\* Mutant of cleanup_old_messages: the count of the expired lines is returned although
\* the file could not be opened.
cleanup_old_messages_counts_anyway(chat_id, topic_id) ==
  LET file == storage_dir[get_storage_filename(chat_id, topic_id)]
  IN  IF file.exists /\ read_raises(get_storage_filename(chat_id, topic_id))
        THEN [file |-> file, removed_count |-> cleanup_file(file, now).removed_count]
        ELSE cleanup_file(file, now)

\* cleanup_old_messages(chat_id, topic_id): the file it leaves, and what it returns.
cleanup_old_messages(chat_id, topic_id) ==
  LET file == storage_dir[get_storage_filename(chat_id, topic_id)]
  IN  IF file.exists /\ read_raises(get_storage_filename(chat_id, topic_id))
        THEN [file |-> file, removed_count |-> 0]       \* open raises: return 0
        ELSE cleanup_file(file, now)

\* /cleanup in chat_id, sent in thread thread_id.
cleanup_command(chat_id, thread_id) ==
  LET filename == get_storage_filename(chat_id, thread_id)
      r        == cleanup_old_messages(chat_id, thread_id)
  IN
  /\ storage_dir' = [storage_dir EXCEPT ![filename] = r.file]
  /\ out' = [op |-> "cleanup", store |-> filename, removed_count |-> r.removed_count]
  /\ UNCHANGED <<platform, sweeper, now, next_message_id, archived_dir,
                 topics_metadata, topics_metadata_file, appended, faulty, history>>

\* /summary in chat_id, thread thread_id, as a reply to message reply_to.
summary_command(chat_id, thread_id, reply_to) ==
  /\ out' = [op |-> "summary",
             store |-> get_storage_filename(chat_id, thread_id),
             from_message_id |-> reply_to,
             messages |-> load_messages(chat_id, thread_id, None, Some(reply_to))]
  /\ UNCHANGED <<platform, sweeper, now, next_message_id, storage_dir, archived_dir,
                 topics_metadata, topics_metadata_file, appended, faulty, history>>

\* ------------------------------------------------------------- reset_command
\* Path.unlink() of the files of dir named by keys.
unlink_all(dir, keys) ==
  [k \in DOMAIN dir |-> IF k \in keys THEN NoFile ELSE dir[k]]

\* del self.topics_metadata[key] for the keys.
delete_entries(metadata, keys) ==
  [k \in DOMAIN metadata |-> IF k \in keys THEN None ELSE metadata[k]]

\* Mutant of topic_pattern: no separator between the chat id and the wildcard.
topic_pattern_no_separator(chat_id) ==
  [prefix |-> "topic_" \o ToString(chat_id), suffix |-> ".txt"]

\* f"topic_{chat_id}_*.txt": what stands before the wildcard and what stands after it.
topic_pattern(chat_id) ==
  [prefix |-> "topic_" \o ToString(chat_id) \o "_", suffix |-> ".txt"]

\* Path.glob(pattern) yields the file of this name: the name starts with what stands
\* before the wildcard and ends, after it, with what stands after the wildcard.
glob_matches(pattern, file) ==
  /\ Len(file) >= Len(pattern.prefix) + Len(pattern.suffix)
  /\ SubSeq(file, 1, Len(pattern.prefix)) = pattern.prefix
  /\ SubSeq(file, Len(file) - Len(pattern.suffix) + 1, Len(file)) = pattern.suffix

\* Mutant of reset_files: the archived area is not looked at.
reset_files_active_only(raises_active, raises_archived, stores, keys) ==
  [ active   |-> IF raises_active THEN storage_dir ELSE unlink_all(storage_dir, stores),
    archived |-> archived_dir ]

\* The files after the unlinks of a reset, which stop at the first one that raises:
\* first the active files, then the archived files.
reset_files(raises_active, raises_archived, stores, keys) ==
  [ active   |-> IF raises_active THEN storage_dir ELSE unlink_all(storage_dir, stores),
    archived |-> IF raises_active \/ raises_archived
                   THEN archived_dir ELSE unlink_all(archived_dir, keys) ]

\* /reset in chat_id, sent in thread thread_id: the topic's data, or with no thread
\* (NoTopic) the data of the whole chat.
reset_command(chat_id, thread_id) ==
  LET whole     == thread_id = NoTopic
      \* the archived files: those the pattern yields, or the file of the topic
      keys      == IF whole THEN { k \in TopicKeys :
                                     glob_matches(topic_pattern(chat_id), file_name(k)) }
                            ELSE { get_topic_key(chat_id, thread_id) }
      \* the active files: those the pattern yields, or the file of the topic
      stores    == IF whole THEN { s \in StoreIds :
                                     glob_matches(topic_pattern(chat_id), file_name(s)) }
                            ELSE { get_storage_filename(chat_id, thread_id) }
      chat_file == get_storage_filename(chat_id, NoTopic)
      raises_active   == store_fails /\ \E s \in stores : storage_dir[s].exists
      raises_archived == ~raises_active /\ archive_fails
                           /\ \E k \in keys : archived_dir[k].exists
      \* in a whole-chat reset the chat file is unlinked after the archived files
      raises_chat     == whole /\ ~raises_active /\ ~raises_archived
                           /\ store_fails /\ storage_dir[chat_file].exists
      raises    == raises_active \/ raises_archived \/ raises_chat
      files     == reset_files(raises_active, raises_archived, stores, keys)
      \* the entries the reset removes: of the topic, or those whose chat_id is the chat's
      entries   == IF whole THEN { k \in TopicKeys : /\ topics_metadata[k] # None
                                                      /\ topics_metadata[k][1].chat_id = chat_id }
                            ELSE { k \in keys : topics_metadata[k] # None }
  IN
  /\ storage_dir' = IF whole /\ ~raises THEN [files.active EXCEPT ![chat_file] = NoFile]
                                        ELSE files.active
  /\ archived_dir' = files.archived
  /\ IF raises
       THEN UNCHANGED <<topics_metadata, topics_metadata_file, history>>
       ELSE /\ topics_metadata' = delete_entries(topics_metadata, entries)
            /\ topics_metadata_file' = IF entries # {}
                                         THEN save_topics_metadata(topics_metadata')
                                         ELSE topics_metadata_file
            /\ history' = [k \in TopicKeys |->
                             IF k \in keys \cup entries
                               THEN [observed |-> FALSE, appends |-> 0]
                                           ELSE history[k]]
  /\ out' = [op |-> "reset", chat_id |-> chat_id, thread_id |-> thread_id,
             error |-> raises]
  /\ UNCHANGED <<platform, sweeper, now, next_message_id, appended, faulty>>

\* ------------------------------------------------------------- stats_command
\* The sum of message_count over the entries of keys.
RECURSIVE total_messages(_, _)
total_messages(metadata, keys) ==
  IF keys = {} THEN 0
  ELSE LET k == CHOOSE x \in keys : TRUE
       IN  metadata[k][1].message_count + total_messages(metadata, keys \ {k})

\* What /stats replies in chat_id, thread thread_id.
stats(chat_id, thread_id) ==
  IF thread_id # NoTopic
    THEN LET filename  == get_storage_filename(chat_id, thread_id)
             topic_key == get_topic_key(chat_id, thread_id)
         IN  IF ~storage_dir[filename].exists
               THEN [reply |-> "No messages stored for this topic yet."]
             ELSE IF read_raises(filename)
               THEN [reply |-> "Error retrieving statistics."]
             ELSE [reply         |-> "TOPIC STATISTICS",
                   name          |-> IF topics_metadata[topic_key] # None
                                       THEN topics_metadata[topic_key][1].name
                                       ELSE "Unknown",
                   status        |-> IF topics_metadata[topic_key] # None
                                       THEN topics_metadata[topic_key][1].status
                                       ELSE "unknown",
                   message_count |-> Len(storage_dir[filename].lines)]
    ELSE LET keys == { k \in TopicKeys : topics_metadata[k] # None
                                          /\ topics_metadata[k][1].chat_id = chat_id }
         IN  [reply          |-> "Chat Statistics",
              total_topics   |-> Cardinality(keys),
              total_messages |-> total_messages(topics_metadata, keys)]

stats_command(chat_id, thread_id) ==
  /\ out' = [op |-> "stats", chat_id |-> chat_id, thread_id |-> thread_id,
             stats |-> stats(chat_id, thread_id)]
  /\ UNCHANGED <<platform, sweeper, now, next_message_id, storage_dir, archived_dir,
                 topics_metadata, topics_metadata_file, appended, faulty, history>>

\* ---------------------------------------------------------- periodic_cleanup
\* int() of the chat id in the name of the file raises ValueError: the sweep logs a
\* warning and goes on to the next file.
parse_raises(filename) == filename = Backup

\* The sum of removed_count over the stores.
RECURSIVE total_cleaned(_)
total_cleaned(stores) ==
  IF stores = {} THEN 0
  ELSE LET s == CHOOSE x \in stores : TRUE
       IN  cleanup_old_messages(s[1], s[2]).removed_count + total_cleaned(stores \ {s})

\* Mutant of sweep_registry: the sweep sets message_count to the live number of lines.
sweep_registry_recounts(metadata) ==
  [k \in DOMAIN metadata |->
     IF metadata[k] # None /\ storage_dir[k].exists
       THEN Some([metadata[k][1] EXCEPT
                    !.message_count = Len(cleanup_old_messages(k[1], k[2]).file.lines)])
       ELSE metadata[k]]

\* The registry the sweep leaves in memory and hands to save_topics_metadata().
sweep_registry(metadata) == metadata

\* Someone copies a store to chat_storage/chat_backup.txt.
copy_backup(filename) ==
  /\ storage_dir[filename].exists
  /\ storage_dir' = [storage_dir EXCEPT ![Backup] = storage_dir[filename]]
  /\ out' = [op |-> "none"]
  /\ UNCHANGED <<platform, sweeper, now, next_message_id, archived_dir, topics_metadata,
                 topics_metadata_file, appended, faulty, history>>

\* Mutant of periodic_cleanup: the glob is recursive ('**/*.txt'), so the files of
\* archived_topics/ are compacted as well.
periodic_cleanup_recursive ==
  LET found == { s \in StoreIds : storage_dir[s].exists /\ ~parse_raises(s) }
  IN
  /\ storage_dir' = [s \in StoreIds |->
                       IF s \in found THEN cleanup_old_messages(s[1], s[2]).file
                                      ELSE storage_dir[s]]
  /\ archived_dir' = [k \in TopicKeys |-> cleanup_file(archived_dir[k], now).file]
  /\ topics_metadata' = sweep_registry(topics_metadata)
  /\ topics_metadata_file' = save_topics_metadata(topics_metadata')
  /\ out' = [op |-> "sweep", total_cleaned |-> total_cleaned(found)]
  /\ UNCHANGED <<platform, sweeper, now, next_message_id, appended, faulty, history>>

\* Mutant of periodic_cleanup: the try is around the loop, so a file that cannot be read
\* or whose name does not parse ends the sweep; the files are visited in an order in
\* which that file comes first.
periodic_cleanup_aborts ==
  LET found   == { s \in StoreIds : storage_dir[s].exists /\ ~parse_raises(s) }
      aborted == \E s \in StoreIds :
                   storage_dir[s].exists /\ (parse_raises(s) \/ read_raises(s))
  IN
  /\ storage_dir' = [s \in StoreIds |->
                       IF s \in found /\ ~aborted THEN cleanup_old_messages(s[1], s[2]).file
                                                   ELSE storage_dir[s]]
  /\ topics_metadata' = sweep_registry(topics_metadata)
  /\ topics_metadata_file' = save_topics_metadata(topics_metadata')
  /\ out' = [op |-> "sweep", total_cleaned |-> IF aborted THEN 0 ELSE total_cleaned(found)]
  /\ UNCHANGED <<platform, sweeper, now, next_message_id, archived_dir, appended, faulty, history>>

\* The retention sweep: every *.txt of the active area is compacted, then the registry
\* is saved.
periodic_cleanup ==
  LET found == { s \in StoreIds : storage_dir[s].exists /\ ~parse_raises(s) }
  IN
  /\ storage_dir' = [s \in StoreIds |->
                       IF s \in found THEN cleanup_old_messages(s[1], s[2]).file
                                      ELSE storage_dir[s]]
  /\ topics_metadata' = sweep_registry(topics_metadata)
  /\ topics_metadata_file' = save_topics_metadata(topics_metadata')
  /\ out' = [op |-> "sweep", total_cleaned |-> total_cleaned(found)]
  /\ UNCHANGED <<platform, sweeper, now, next_message_id, archived_dir, appended, faulty, history>>

\* ------------------------------------------------- periodic_cleanup, by steps
\* Mutant of yields: cleanup_old_messages awaits between reading the file and rewriting it.
yields_before_write(pc) == pc \in {"idle", "write"}

\* The event loop can run another task while the job is at pc: between two runs only,
\* since periodic_cleanup and cleanup_old_messages contain no await.
yields(pc) == pc = "idle"

\* The job starts: the files of the glob are to be visited.
periodic_cleanup_begin ==
  /\ sweeper.pc = "idle"
  /\ sweeper' = [pc |-> "next",
                 todo |-> { s \in StoreIds : storage_dir[s].exists /\ ~parse_raises(s) },
                 total_cleaned |-> 0]
  /\ UNCHANGED <<platform, now, next_message_id, storage_dir, archived_dir,
                 topics_metadata, topics_metadata_file, appended, out, faulty, history>>

\* cleanup_old_messages of the next file, up to the end of its loop over the lines: the
\* file is read and kept_lines and removed_count are computed. A file that does not
\* exist or cannot be read is done with: 0 is returned.
cleanup_old_messages_read(filename) ==
  LET file == storage_dir[filename]
      r    == cleanup_file(file, now)
  IN
  /\ sweeper.pc = "next"
  /\ filename \in sweeper.todo
  /\ sweeper' = IF ~file.exists \/ read_raises(filename)
                  THEN [sweeper EXCEPT !.todo = @ \ {filename}]
                  ELSE [pc            |-> "write",
                        todo          |-> sweeper.todo \ {filename},
                        total_cleaned |-> sweeper.total_cleaned,
                        filename      |-> filename,
                        cutoff_time   |-> now - days_to_keep,
                        kept_lines    |-> r.file.lines,
                        removed_count |-> r.removed_count]
  /\ UNCHANGED <<platform, now, next_message_id, storage_dir, archived_dir,
                 topics_metadata, topics_metadata_file, appended, out, faulty, history>>

\* The rest of cleanup_old_messages: open(filename, 'w'), f.writelines(kept_lines), and
\* the count is added to the total.
cleanup_old_messages_write ==
  /\ sweeper.pc = "write"
  /\ storage_dir' = [storage_dir EXCEPT ![sweeper.filename] =
                       [exists |-> TRUE, lines |-> sweeper.kept_lines]]
  /\ sweeper' = [pc            |-> "next",
                 todo          |-> sweeper.todo,
                 total_cleaned |-> sweeper.total_cleaned + sweeper.removed_count]
  /\ UNCHANGED <<platform, now, next_message_id, archived_dir,
                 topics_metadata, topics_metadata_file, appended, out, faulty, history>>

\* The end of the job: the registry is saved and the total is logged.
periodic_cleanup_end ==
  /\ sweeper.pc = "next"
  /\ sweeper.todo = {}
  /\ sweeper' = Idle
  /\ topics_metadata_file' = save_topics_metadata(topics_metadata)
  /\ out' = [op |-> "sweep", total_cleaned |-> sweeper.total_cleaned]
  /\ UNCHANGED <<platform, now, next_message_id, storage_dir, archived_dir,
                 topics_metadata, appended, faulty, history>>

\* ------------------------------------------------------------------- restart
\* The documents save_topics_metadata(metadata) can leave when the process is killed
\* inside it: the old one (before the open), a truncated one (after open(file, 'w'),
\* before json.dump has finished), the new one.
interrupted_save(metadata) ==
  IF registry_fails THEN { topics_metadata_file }
  ELSE { topics_metadata_file, Truncated, json_dump(metadata) }

\* The process is killed inside the save_topics_metadata() that ends a handler which has
\* set the in-memory registry to metadata and the files to dir and archive, and is started
\* again: __init__ reads the registry from the document.
killed_in_save(metadata, dir, archive) ==
  /\ \E document \in interrupted_save(metadata) :
       /\ topics_metadata_file' = document
       /\ topics_metadata' = load_topics_metadata(document)
  /\ storage_dir' = dir
  /\ archived_dir' = archive
  /\ out' = [op |-> "killed", during |-> "save", saving |-> metadata]
  /\ UNCHANGED <<platform, sweeper, now, next_message_id, appended, faulty>>

\* handle_topic_created, killed inside its save.
killed_in_topic_created(chat_id, topic_id, topic_name) ==
  LET topic_key == get_topic_key(chat_id, topic_id)
      filename  == get_storage_filename(chat_id, topic_id)
  IN
  /\ ~store_fails
  /\ killed_in_save([topics_metadata EXCEPT ![topic_key] =
                       Some(new_entry(chat_id, topic_id, topic_name))],
                    [storage_dir EXCEPT ![filename] = touch(@)],
                    archived_dir)
  /\ history' = [history EXCEPT ![topic_key] = [observed |-> TRUE, appends |-> 0]]

\* handle_topic_closed, killed inside its save.
killed_in_topic_closed(chat_id, topic_id) ==
  LET topic_key    == get_topic_key(chat_id, topic_id)
      current_file == get_storage_filename(chat_id, topic_id)
      metadata     == IF topics_metadata[topic_key] # None
                        THEN [topics_metadata EXCEPT ![topic_key] = Some(closed_entry(@[1]))]
                        ELSE topics_metadata
      moves        == topics_metadata[topic_key] # None /\ storage_dir[current_file].exists
  IN
  /\ ~(moves /\ move_raises(archived_dir[topic_key]))
  /\ killed_in_save(metadata,
                    IF moves THEN [storage_dir EXCEPT ![current_file] = NoFile]
                             ELSE storage_dir,
                    IF moves THEN [archived_dir EXCEPT ![topic_key] = storage_dir[current_file]]
                             ELSE archived_dir)
  /\ UNCHANGED history

\* The contents open(filename, 'w') and f.writelines(kept_lines) can leave in the file
\* when the process is killed between the two or inside the second: the lines written
\* so far.
prefixes(lines) == { SubSeq(lines, 1, n) : n \in 0..Len(lines) }

\* cleanup_old_messages(chat_id, topic_id), killed after it has read the file, and the
\* restart of the process.
killed_in_cleanup(chat_id, topic_id) ==
  LET filename == get_storage_filename(chat_id, topic_id)
      file     == storage_dir[filename]
      r        == cleanup_file(file, now)
  IN
  /\ file.exists
  /\ ~read_raises(filename)
  /\ \E lines \in {file.lines} \cup prefixes(r.file.lines) :
       storage_dir' = [storage_dir EXCEPT ![filename] = [exists |-> TRUE, lines |-> lines]]
  /\ topics_metadata' = load_topics_metadata(topics_metadata_file)
  /\ out' = [op |-> "killed", during |-> "cleanup", store |-> filename]
  /\ UNCHANGED <<platform, sweeper, now, next_message_id, archived_dir, topics_metadata_file,
                 appended, faulty, history>>

\* ------------------------------------------------------------ specifications
Threads == {NoTopic} \cup Topics

\* The transport has a message to deliver.
MoreMessages(n) == next_message_id <= 100 + n

Created  == \E c \in Chats, t \in Topics, n \in TopicNames : handle_topic_created(c, t, n)
Closed   == \E c \in Chats, t \in Topics : handle_topic_closed(c, t)
Reopened == \E c \in Chats, t \in Topics : handle_topic_reopened(c, t)
Text     == /\ MoreMessages(MaxAppends)
            /\ \E c \in Chats, t \in Threads, m \in TextMessages : handle_text_message(c, t, m)
Cleanup  == \E c \in Chats, t \in Threads : cleanup_command(c, t)
Summary  == \E c \in Chats, t \in Threads, r \in MsgIds : summary_command(c, t, r)
Reset    == \E c \in Chats, t \in Threads : reset_command(c, t)
Stats    == \E c \in Chats, t \in Threads : stats_command(c, t)
Sweep    == periodic_cleanup
DiskFault == \E area \in Areas : Fault(area)

\* Every handler, every input.
Next == \/ Created \/ Closed \/ Reopened \/ Text \/ Cleanup \/ Summary
        \/ Reset \/ Stats \/ Sweep \/ DiskFault \/ Tick

Spec == Init /\ [][Next]_vars

\* Topic lifecycle events alone.
NextLifecycle == Created \/ Closed \/ Reopened \/ Tick

SpecLifecycle == Init /\ [][NextLifecycle]_vars

\* One conversation log: the messages of one topic, its scans and its compactions.
LogTopics == {5}

\* The lifecycle events of one topic and the messages of one member in it.
PlainMessages == { m \in TextMessages : m.from_user # None /\ m.text = << <<"hi">> >> }

TopicCreated  == \E c \in Chats, t \in LogTopics, n \in TopicNames : handle_topic_created(c, t, n)
TopicClosed   == \E c \in Chats, t \in LogTopics : handle_topic_closed(c, t)
TopicReopened == \E c \in Chats, t \in LogTopics : handle_topic_reopened(c, t)
TopicText     == /\ MoreMessages(MaxAppends)
                 /\ \E c \in Chats, t \in LogTopics, m \in PlainMessages : handle_text_message(c, t, m)

NextArchive == TopicCreated \/ TopicClosed \/ TopicReopened \/ TopicText \/ Tick

SpecArchive == Init /\ [][NextArchive]_vars

LogText    == /\ MoreMessages(MaxAppends)
              /\ \E c \in Chats, t \in LogTopics, m \in TextMessages : handle_text_message(c, t, m)
LogCleanup == \E c \in Chats, t \in LogTopics : cleanup_command(c, t)
LogSummary == \E c \in Chats, t \in LogTopics, r \in MsgIds : summary_command(c, t, r)

NextLog == LogText \/ LogCleanup \/ LogSummary \/ Tick

SpecLog == Init /\ [][NextLog]_vars

\* The replay scenario: messages 101, 102, 103 of one member in one topic, then a replay.
ScenarioText    == /\ MoreMessages(ScenarioAppends)
                   /\ \E c \in Chats, t \in LogTopics, m \in PlainMessages : handle_text_message(c, t, m)
ScenarioSummary == \E c \in Chats, t \in LogTopics, r \in ScenarioIds : summary_command(c, t, r)

NextScenario == ScenarioText \/ ScenarioSummary \/ Tick

SpecScenario == Init /\ [][NextScenario]_vars

\* One topic with everything that acts on its store: the lifecycle events, the messages
\* of one member, the manual compaction, the retention sweep, /reset and /stats.
StoreThreads == {NoTopic} \cup LogTopics

StoreCleanup == \E c \in Chats, t \in LogTopics : cleanup_command(c, t)
StoreReset   == \E c \in Chats, t \in StoreThreads : reset_command(c, t)
StoreStats   == \E c \in Chats, t \in StoreThreads : stats_command(c, t)

NextStore == \/ TopicCreated \/ TopicClosed \/ TopicReopened \/ TopicText
             \/ StoreCleanup \/ Sweep \/ StoreReset \/ StoreStats \/ Tick

SpecStore == Init /\ [][NextStore]_vars

\* Retention: one announced topic, its messages, the manual compaction and the sweep.
NextRetention == TopicCreated \/ TopicText \/ StoreCleanup \/ Sweep \/ Tick

SpecRetention == Init /\ [][NextRetention]_vars

\* /reset and /stats on a topic in every state of its key: open, closed, or with
\* both files.
TopicReset == \E c \in Chats, t \in LogTopics : reset_command(c, t)
TopicStats == \E c \in Chats, t \in LogTopics : stats_command(c, t)

NextReset == \/ TopicCreated \/ TopicClosed \/ TopicReopened \/ TopicText
             \/ TopicReset \/ TopicStats \/ LogSummary

SpecReset == Init /\ [][NextReset]_vars

\* The lifecycle events and the messages of one topic on a disk whose areas fail and
\* recover.
NextFaults == TopicCreated \/ TopicClosed \/ TopicReopened \/ TopicText \/ DiskFault

SpecFaults == Init /\ [][NextFaults]_vars

\* A log with pasted text: the lines of a message after its first go into the file as
\* they are, whatever they look like.
PastedMessages ==
  { [from_user |-> Some(ann), text |-> << <<"hi">> >>],
    [from_user |-> Some(ann), text |-> << <<"x">>, <<"y">>, <<"p", "q", "r", "s">> >>],
    [from_user |-> Some(ann),
     text |-> << <<"see">>, << isoformat(1), "7", "ann", "x7", "quoted" >> >>] }

DecodeText == /\ MoreMessages(MaxAppends)
              /\ \E c \in Chats, t \in LogTopics, m \in PastedMessages : handle_text_message(c, t, m)

NextDecode == DecodeText \/ LogSummary \/ Tick

SpecDecode == Init /\ [][NextDecode]_vars

\* The lifecycle events, the messages and the resets of one topic while the store files
\* and the archived files fail and recover; the registry document can always be written.
FileFault == \E area \in {"store", "archive"} : Fault(area)

NextMirror == \/ TopicCreated \/ TopicClosed \/ TopicReopened \/ TopicText
              \/ TopicReset \/ FileFault

SpecMirror == Init /\ [][NextMirror]_vars

\* The lifecycle events of two topics, and a process that is killed inside the save of
\* the registry and started again.
KilledInSave == \/ \E c \in Chats, t \in Topics, n \in TopicNames : killed_in_topic_created(c, t, n)
                \/ \E c \in Chats, t \in Topics : killed_in_topic_closed(c, t)

NextKilledSave == Created \/ Closed \/ Reopened \/ KilledInSave \/ Tick

SpecKilledSave == Init /\ [][NextKilledSave]_vars

\* The messages and the compactions of one topic, and a process that is killed inside a
\* compaction and started again.
KilledInCleanup == \E c \in Chats, t \in LogTopics : killed_in_cleanup(c, t)

NextKilledCleanup == TopicText \/ StoreCleanup \/ KilledInCleanup \/ Tick

SpecKilledCleanup == Init /\ [][NextKilledCleanup]_vars

\* The messages, the scans and the compactions of one topic while the active area fails
\* and recovers.
StoreFault == Fault("store")

NextStoreFault == TopicText \/ LogCleanup \/ LogSummary \/ StoreFault \/ Tick

SpecStoreFault == Init /\ [][NextStoreFault]_vars

\* The retention sweep over two stores, a topic's and a plain chat's, next to a file
\* whose name is no store's, while single files become unreadable and readable again.
SweepStores == { get_storage_filename(42, 5), get_storage_filename(43, NoTopic) }

SweepText  == /\ MoreMessages(MaxAppends)
              /\ \E s \in SweepStores, m \in PlainMessages : handle_text_message(s[1], s[2], m)
Unreadable == \E s \in SweepStores : Fault(file_name(s))
CopyBackup == \E s \in SweepStores : copy_backup(s)

NextSweep == SweepText \/ Unreadable \/ CopyBackup \/ Sweep \/ Tick

SpecSweep == Init /\ [][NextSweep]_vars

\* One topic that is announced again under either of two names, its closures and its
\* messages.
NewNames == {"Planning", "Roadmap"}

Renamed == \E c \in Chats, t \in LogTopics, n \in NewNames : handle_topic_created(c, t, n)

NextRenamed == Renamed \/ TopicClosed \/ TopicText \/ Tick

SpecRenamed == Init /\ [][NextRenamed]_vars

\* One topic with an archived file: its announcement, its closure, the messages that
\* follow, and the scans, the compactions and the sweeps of its store.
AreaSummary == \E c \in Chats, t \in LogTopics : summary_command(c, t, 101)

NextArea == \/ TopicCreated \/ TopicClosed \/ TopicText
            \/ StoreCleanup \/ AreaSummary \/ Sweep \/ Tick

SpecArea == Init /\ [][NextArea]_vars

\* A log with pasted text and its compactions, on a clock that moves between them.
NextCompacted == DecodeText \/ LogCleanup \/ Tick

SpecCompacted == Init /\ [][NextCompacted]_vars

\* The inbound handler and the periodic job on one event loop: text messages for two
\* stores, delivered whenever the job yields, and the job step by step.
Inbound == yields(sweeper.pc) /\ SweepText

SweepSteps == \/ periodic_cleanup_begin
              \/ \E s \in StoreIds : cleanup_old_messages_read(s)
              \/ cleanup_old_messages_write
              \/ periodic_cleanup_end

NextCooperative == Inbound \/ SweepSteps \/ Tick

SpecCooperative == Init /\ [][NextCooperative]_vars

\* A forum chat seen from outside any topic: text messages without a thread id, and
\* /summary sent without a thread id.
GeneralText    == /\ MoreMessages(MaxAppends)
                  /\ \E c \in Chats, m \in PlainMessages : handle_text_message(c, NoTopic, m)
GeneralSummary == \E c \in Chats, r \in MsgIds : summary_command(c, NoTopic, r)

NextGeneral == GeneralText \/ GeneralSummary \/ Tick

SpecGeneral == Init /\ [][NextGeneral]_vars

\* Two forums, the id of one a decimal prefix of the other's, with two topics in the
\* first and one in the second: topics are created, one topic of each forum is closed,
\* the other topic of the first forum and the topic of the second get messages, and
\* /reset is sent in a topic or outside any topic of either forum.
ScopeChats == Chats \cup NeighbourChats
ScopeKeys == { <<42, 1>>, <<42, 5>>, <<4, 5>> }

ScopeCreated == \E k \in ScopeKeys, n \in TopicNames : handle_topic_created(k[1], k[2], n)
ScopeClosed  == \E k \in { <<42, 1>>, <<4, 5>> } : handle_topic_closed(k[1], k[2])
ScopeText    == /\ MoreMessages(MaxAppends)
                /\ \E k \in { <<42, 5>>, <<4, 5>> }, m \in PlainMessages :
                     handle_text_message(k[1], k[2], m)
ScopeReset   == \E c \in ScopeChats, t \in {NoTopic, 5} : reset_command(c, t)

NextScope == ScopeCreated \/ ScopeClosed \/ ScopeText \/ ScopeReset

SpecScope == Init /\ [][NextScope]_vars

\* ===================================================================== claims
LogStores == Chats \X LogTopics

\* The full scan of a store: load_messages without marker and without limit.
full_scan(store) == load_from(storage_dir[store], now, None, None)

\* The external ids of a sequence of messages.
ids_of(messages) == [i \in 1..Len(messages) |-> messages[i].message_id]

\* Line l is in file f.
has_line(f, l) == f.exists /\ \E i \in 1..Len(f.lines) : f.lines[i] = l

\* The lines store_message wrote for a record.
lines_of(r) == encode(r.timestamp, r.author_id, r.author_name, r.external_id, r.text)

\* ------------------------------------------------------------------------ C1
\* C1 (SpecLifecycle): under topic-created, topic-closed and topic-reopened events
\* alone, a key that has seen a topic-created event (it has a metadata entry: nothing
\* but topic-created makes one here, and nothing removes it) has exactly one of its
\* active file and its archived file.
C1_ExactlyOneFile ==
  \A k \in TopicKeys :
    topics_metadata[k] # None => (storage_dir[k].exists # archived_dir[k].exists)

\* ------------------------------------------------------------------------ C2
\* The suffix of a sequence of messages from the first one whose external id is marker.
RECURSIVE suffix_from(_, _)
suffix_from(messages, marker) ==
  IF messages = <<>> THEN <<>>
  ELSE IF Head(messages).message_id = Some(marker) THEN messages
  ELSE suffix_from(Tail(messages), marker)

\* C2 (SpecLog): the messages a scan with a marker returns are the suffix of the full
\* scan of the store that starts at the first message whose external id is the marker,
\* and the empty sequence when the full scan has no such message.
C2_MarkerSuffix ==
  out.op = "summary" =>
    out.messages = suffix_from(full_scan(out.store), out.from_message_id)

\* ------------------------------------------------------------------------ C3
\* The store holds the three records 101, 102, 103 of the scenario, appended in this
\* order at non-decreasing timestamps, all inside the retention window, and the last
\* handler was the scan from marker 102.
ScenarioA ==
  /\ out.op = "summary"
  /\ out.from_message_id = 102
  /\ Len(appended[out.store]) = 3
  /\ \A i \in 1..3 : appended[out.store][i].external_id = Some(100 + i)
  /\ \A i \in 1..2 : appended[out.store][i].timestamp <= appended[out.store][i + 1].timestamp
  /\ \A i \in 1..3 : appended[out.store][i].timestamp >= now - days_to_keep

C4_AppendedRecordsStay ==
  \A k \in TopicKeys : \A i \in 1..Len(appended[k]) :
    \A j \in 1..Len(lines_of(appended[k][i])) :
      \/ has_line(storage_dir[k], lines_of(appended[k][i])[j])
      \/ has_line(archived_dir[k], lines_of(appended[k][i])[j])

\* ------------------------------------------------------------------------ C5
\* decode(encode(record)): the scan of a file that holds the lines of the record alone,
\* at the time of the record.
decode_encode(r) ==
  load_from([exists |-> TRUE, lines |-> lines_of(r)], r.timestamp, None, None)

\* The message is the record: same timestamp, author, external id and text.
same_record(msg, r) ==
  /\ msg.date = r.timestamp
  /\ str(msg.user_id) = r.author_id
  /\ msg.user = r.author_name
  /\ msg.message_id = r.external_id
  /\ r.text = <<msg.text>>

\* C5 (SpecLog): the record a text message stored decodes, from the lines encoded
\* for it, to that one record with all fields the same.
C5_RoundTrip ==
  out.op = "record" =>
    /\ Len(decode_encode(out.record)) = 1
    /\ same_record(decode_encode(out.record)[1], out.record)

\* ------------------------------------------------------------------------ C6
\* C6 (SpecLog): a record stored for a message without sender (author_id "bot") is
\* returned by the scan of its store.
C6_BotRecordScanned ==
  (out.op = "record" /\ out.record.author_id = "bot") =>
    \E i \in 1..Len(full_scan(out.store)) :
      full_scan(out.store)[i].message_id = out.record.external_id

\* A sanity check of the codec on the records whose round trip the code does keep: a
\* member's single-line text without blank at its end, the '|' delimiter included.
RoundTripOfPlainRecords ==
  (out.op = "record" /\ out.record.author_id # "bot" /\ Len(out.record.text) = 1
     /\ strip_split(out.record.text[1]) = out.record.text[1]) =>
    /\ Len(decode_encode(out.record)) = 1
    /\ same_record(decode_encode(out.record)[1], out.record)

\* ------------------------------------------------------------------------ C7
\* The position of the record with external id id among the records appended to a store.
append_position(store, id) ==
  CHOOSE i \in 1..Len(appended[store]) : appended[store][i].external_id = id

\* C7 (SpecLog): the scan of a store returns the records in the order of their appends.
C7_AppendOrder ==
  \A store \in LogStores :
    \A i, j \in 1..Len(full_scan(store)) :
      i < j => append_position(store, full_scan(store)[i].message_id)
                 < append_position(store, full_scan(store)[j].message_id)

\* ------------------------------------------------------------------------ C8
non_decreasing(messages) ==
  \A i \in 1..(Len(messages) - 1) : messages[i].date <= messages[i + 1].date

\* C8 (SpecLog): whatever the order of the lines in the file, the full scan of a store
\* and the result of every scan with a marker are in non-decreasing timestamp order.
C8_ScanSortedByTimestamp ==
  /\ \A store \in LogStores : non_decreasing(full_scan(store))
  /\ out.op = "summary" => non_decreasing(out.messages)

\* The timestamps of the well-formed lines of a file, in file order.
line_times(lines) ==
  LET wf == SelectSeq(lines, LAMBDA l : Len(l) >= 4 /\ IsIsoFormat(strip_split(l)[1]))
  IN  [i \in 1..Len(wf) |-> fromisoformat(strip_split(wf[i])[1])]

\* A scan returned two messages whose lines are in the file in the opposite order.
C8_Witness ==
  /\ out.op = "summary"
  /\ Len(out.messages) = 2
  /\ out.messages[1].date < out.messages[2].date
  /\ line_times(storage_dir[out.store].lines) = << out.messages[2].date, out.messages[1].date >>

\* ------------------------------------------------------------------------ C9
\* A well-formed line: at least 4 fields and a timestamp that parses.
well_formed(line) == Len(line) >= 4 /\ IsIsoFormat(strip_split(line)[1])
time_of(line) == fromisoformat(strip_split(line)[1])

\* The number of lines of a sequence that satisfy Test.
count_lines(lines, Test(_)) == Cardinality({ i \in 1..Len(lines) : Test(lines[i]) })

C10_CompactIdempotent ==
  [][ (out.op = "cleanup" /\ out'.op = "cleanup" /\ out'.store = out.store) =>
        /\ out'.removed_count = 0
        /\ storage_dir' = storage_dir
    ]_vars

\* A compaction returned 0 on a store that still holds malformed lines and a record,
\* and from which a compaction had removed a record before.
C10_Witness ==
  /\ out.op = "cleanup"
  /\ out.removed_count = 0
  /\ count_lines(storage_dir[out.store].lines, LAMBDA l : ~well_formed(l)) > 0
  /\ count_lines(storage_dir[out.store].lines, well_formed) = 1
  /\ Len(appended[out.store]) = 2

\* ----------------------------------------------------------------------- C11
\* C11 (SpecArchive): a topic-closed event for a key whose active file exists moves
\* the file into the archived area with its content unchanged (afterwards the archived
\* file exists and the active file does not); with no active file no file changes; in
\* both cases the metadata of the key, if present, has status closed.
C11_CloseArchives ==
  [][ out'.op = "topic_closed" =>
        LET k == out'.store
        IN  /\ topics_metadata'[k] # None => topics_metadata'[k][1].status = "closed"
            /\ IF storage_dir[k].exists
                 THEN /\ archived_dir'[k] = storage_dir[k]
                      /\ ~storage_dir'[k].exists
                 ELSE /\ storage_dir' = storage_dir
                      /\ archived_dir' = archived_dir
    ]_vars

\* ----------------------------------------------------------------------- C12
\* C12 (SpecArchive): a topic-reopened event for a key whose archived file exists
\* moves it back to the active area with its content unchanged; otherwise an active
\* file exists afterwards, empty when there was none; in both cases an active file
\* exists afterwards, no archived file exists, and the metadata of the key, if
\* present, has status open.
C12_ReopenRestores ==
  [][ out'.op = "topic_reopened" =>
        LET k == out'.store
        IN  /\ topics_metadata'[k] # None => topics_metadata'[k][1].status = "open"
            /\ storage_dir'[k].exists
            /\ ~archived_dir'[k].exists
            /\ IF archived_dir[k].exists
                 THEN storage_dir'[k] = archived_dir[k]
                 ELSE ~storage_dir[k].exists => storage_dir'[k] = EmptyFile
    ]_vars

\* ----------------------------------------------------------------------- C13
\* C13 (SpecStore): in every state reached by record, topic-created, topic-closed,
\* topic-reopened, compact, sweep and reset operations, at most one of the active file
\* and the archived file of a (chat, topic) key exists.
C13_AtMostOneFile ==
  \A k \in TopicKeys : ~(storage_dir[k].exists /\ archived_dir[k].exists)

\* ----------------------------------------------------------------------- C14
\* C14 (SpecFaults): for a key that has a metadata entry, message_count is the number
\* of records appended to the key's log since the entry was set, counting the appends
\* that wrote their record only: an append that fails with an I/O error is not counted.
C14_CountIsAppends ==
  \A k \in TopicKeys :
    topics_metadata[k] # None => topics_metadata[k][1].message_count = history[k].appends

\* ----------------------------------------------------------------------- C15
\* C15 (SpecRetention): a manual compaction and a retention sweep leave every entry of
\* the registry as it was (message_count, status, name and timestamps), whatever
\* number of records they remove.
C15_CompactionKeepsRegistry ==
  [][ out'.op \in {"cleanup", "sweep"} => topics_metadata' = topics_metadata ]_vars

\* A sweep removed a record of a topic whose entry counts the records appended.
C15_Witness ==
  /\ out.op = "sweep"
  /\ out.total_cleaned > 0
  /\ \E k \in TopicKeys :
       /\ topics_metadata[k] # None
       /\ topics_metadata[k][1].message_count = Len(appended[k])
       /\ Len(storage_dir[k].lines) < Len(appended[k])

\* ----------------------------------------------------------------------- C16
\* /stats for a topic reports zero messages: no messages stored, or a count of 0.
reports_zero(st) ==
  \/ st.reply = "No messages stored for this topic yet."
  \/ st.reply = "TOPIC STATISTICS" /\ st.message_count = 0

\* C16 (SpecReset): after /reset on a topic, whatever files the key had (active,
\* archived, or both), the key has no active file, no archived file and no metadata
\* entry, and a scan of the topic returns the empty sequence; a /stats on the topic
\* that follows the reset reports zero messages.
C16_ResetRemovesTopic ==
  [][ /\ \A c \in Chats, t \in Topics :
           (out'.op = "reset" /\ out'.chat_id = c /\ out'.thread_id = t) =>
             /\ ~storage_dir'[get_storage_filename(c, t)].exists
             /\ ~archived_dir'[get_topic_key(c, t)].exists
             /\ topics_metadata'[get_topic_key(c, t)] = None
             /\ load_messages(c, t, None, None)' = <<>>
      /\ (out.op = "reset" /\ out.thread_id # NoTopic /\ out'.op = "stats"
            /\ out'.chat_id = out.chat_id /\ out'.thread_id = out.thread_id)
           => reports_zero(out'.stats)
    ]_vars

\* /stats reported no messages for a topic in which two records had been stored and
\* which was reset since (nothing but a reset clears the history of a key).
C16_Witness ==
  /\ out.op = "stats"
  /\ out.thread_id # NoTopic
  /\ reports_zero(out.stats)
  /\ LET k == get_topic_key(out.chat_id, out.thread_id)
     IN  /\ Len(appended[k]) = 2
         /\ ~history[k].observed

\* ----------------------------------------------------------------------- C17
\* A malformed line: fewer than 4 fields, or a timestamp that does not parse.
short_line(line) == Len(strip_split(line)) < 4
bad_timestamp(line) == Len(strip_split(line)) >= 4 /\ ~IsIsoFormat(strip_split(line)[1])

\* The file without its malformed lines.
without_malformed(file) ==
  [exists |-> file.exists, lines |-> SelectSeq(file.lines, well_formed)]

\* The line of a record the scan at this time returns: well formed, inside the
\* retention window, with an author id that int() reads.
returned_line(line) ==
  /\ well_formed(line)
  /\ time_of(line) >= now - days_to_keep
  /\ ~int_raises(strip_split(line)[2])

\* C17 (SpecDecode): a scan skips the lines with fewer than 4 fields and the lines whose
\* timestamp does not parse: the scan of a store, without marker and from every
\* marker, returns what it returns for the store without these lines, and the full
\* scan has one record for each line that is well formed, inside the retention window
\* and has a numeric author id.
C17_MalformedSkipped ==
  \A store \in LogStores :
    LET file == storage_dir[store]
    IN  /\ full_scan(store) = load_from(without_malformed(file), now, None, None)
        /\ \A marker \in MsgIds :
             load_from(file, now, None, Some(marker))
               = load_from(without_malformed(file), now, None, Some(marker))
        /\ Len(full_scan(store)) = count_lines(file.lines, returned_line)

\* A store holds a record, then a line with fewer than 4 fields and a line whose
\* timestamp does not parse, then a second record, and the scan returns both records.
C17_Witness ==
  \E store \in LogStores :
    LET lines == storage_dir[store].lines
    IN  /\ Len(lines) = 4
        /\ well_formed(lines[1])
        /\ short_line(lines[2])
        /\ bad_timestamp(lines[3])
        /\ well_formed(lines[4])
        /\ ids_of(full_scan(store)) = << Some(101), Some(102) >>

\* ----------------------------------------------------------------------- C18
\* A line with at least 5 fields whose external id field is neither a number nor None.
non_numeric_id(line) ==
  LET parts == strip_split(line)
  IN  Len(parts) >= 5 /\ parts[4] # "None" /\ ~isdigit(parts[4])

\* The message is what the scan makes of the line.
record_of(msg, line) ==
  LET parts == strip_split(line)
  IN  /\ msg.timestamp = parts[1]
      /\ msg.user = parts[3]
      /\ msg.text = SubSeq(parts, 5, Len(parts))

\* C18 (SpecDecode): the scan of a store returns no record for a line with at least 5
\* fields whose external id field is non-numeric and is not the literal None.
C18_NonNumericIdSkipped ==
  \A store \in LogStores :
    \A i \in 1..Len(storage_dir[store].lines) :
      non_numeric_id(storage_dir[store].lines[i]) =>
        ~\E j \in 1..Len(full_scan(store)) :
            record_of(full_scan(store)[j], storage_dir[store].lines[i])

\* ----------------------------------------------------------------------- C19
\* C19 (SpecStore): in every state, a key has a metadata entry if and only if a
\* lifecycle event was observed for it since its last reset: a topic-created event, or
\* a message in the topic.
C19_EntryIffObserved ==
  \A k \in TopicKeys : topics_metadata[k] # None <=> history[k].observed

\* ----------------------------------------------------------------------- C20
\* C20 (SpecFaults): when the file creation or the file move of a topic-created,
\* topic-closed or topic-reopened event raises an I/O error, the handler ends (the
\* error is logged) and the registry in memory has the mutation of the event: the new
\* open entry with count 0, the entry closed at the time of the event, or the entry
\* open again, with its other fields as they were.
C20_MutationDespiteIOError ==
  [][ (out'.op \in {"topic_created", "topic_closed", "topic_reopened"} /\ out'.error) =>
        LET k == out'.store
        IN  /\ topics_metadata'[k] # None
            /\ \A other \in TopicKeys \ {k} : topics_metadata'[other] = topics_metadata[other]
            /\ LET entry == topics_metadata'[k][1]
               IN  CASE out'.op = "topic_created" ->
                          /\ entry.status = "open"
                          /\ entry.closed_at = None
                          /\ entry.message_count = 0
                          /\ entry.created_at = now
                          /\ entry.name \in TopicNames
                     [] out'.op = "topic_closed" ->
                          /\ entry.status = "closed"
                          /\ entry.closed_at = Some(now)
                          /\ entry.message_count = topics_metadata[k][1].message_count
                          /\ entry.name = topics_metadata[k][1].name
                          /\ entry.created_at = topics_metadata[k][1].created_at
                     [] out'.op = "topic_reopened" ->
                          /\ entry.status = "open"
                          /\ entry.closed_at = None
                          /\ entry.message_count = topics_metadata[k][1].message_count
                          /\ entry.name = topics_metadata[k][1].name
                          /\ entry.created_at = topics_metadata[k][1].created_at
    ]_vars

\* The move of a topic-closed event raised on a failing disk: the entry is closed in
\* memory, the active file with its record is still in the active area, and the
\* document on disk still has the entry open.
C20_Witness ==
  /\ out.op = "topic_closed"
  /\ out.error
  /\ faulty # {}
  /\ topics_metadata[out.store][1].status = "closed"
  /\ storage_dir[out.store].exists
  /\ Len(storage_dir[out.store].lines) > 0
  /\ load_topics_metadata(topics_metadata_file)[out.store] # None
  /\ load_topics_metadata(topics_metadata_file)[out.store][1].status = "open"

\* ----------------------------------------------------------------------- C21
\* C21 (SpecMirror): whenever an operation that changed the in-memory registry (create,
\* close, reopen, count increment, delete) has finished, the persisted registry document
\* equals the in-memory mapping. The document can always be written in SpecMirror, so
\* between any two handlers the mapping read from the document is the in-memory mapping.
C21_DocumentMirrorsRegistry == load_topics_metadata(topics_metadata_file) = topics_metadata

\* ----------------------------------------------------------------------- C22
\* C22 (SpecKilledSave): when the process is killed inside a save of the registry and
\* started again, the mapping it loads is the in-memory mapping from before the last
\* mutation or the one after it: never a mapping that has lost older entries.
C22_KilledSaveLosesAtMostLastMutation ==
  [][ (out'.op = "killed" /\ out'.during = "save")
        => topics_metadata' \in { topics_metadata, out'.saving } ]_vars

\* ----------------------------------------------------------------------- C23
\* C23 (SpecKilledCleanup): when the process is killed inside a compaction, the store
\* holds its complete old content or its complete compacted content.
C23_KilledCompactionOldOrNew ==
  [][ \A store \in LogStores :
        (out'.op = "killed" /\ out'.during = "cleanup" /\ out'.store = store)
          => storage_dir'[store] \in { storage_dir[store],
                                       cleanup_file(storage_dir[store], now).file } ]_vars

\* ----------------------------------------------------------------------- C24
\* A line of the file that a compaction at this time removes.
expired(line) == well_formed(line) /\ time_of(line) < now - days_to_keep

\* C24 (SpecStoreFault): no failure of the store's files reaches the caller. While the
\* active area fails, a text message ends with the error logged and nothing written, a
\* scan returns the empty sequence and a compaction returns 0 and leaves the file as it
\* is; the scan and the compaction of a store that does not exist return the empty
\* sequence and 0.
C24_StorageFailuresContained ==
  [][ \A store \in LogStores :
        LET unusable == store_fails \/ ~storage_dir[store].exists
        IN  /\ (next_message_id' # next_message_id /\ store_fails)
                 => /\ out'.op = "record_lost"
                    /\ storage_dir' = storage_dir
                    /\ appended' = appended
            /\ (out'.op = "summary" /\ out'.store = store /\ unusable)
                 => out'.messages = <<>>
            /\ (out'.op = "cleanup" /\ out'.store = store /\ unusable)
                 => /\ out'.removed_count = 0
                    /\ storage_dir' = storage_dir ]_vars

\* A compaction on the failing area returned 0 for a store that holds an expired record.
C24_Witness ==
  /\ out.op = "cleanup"
  /\ store_fails
  /\ out.removed_count = 0
  /\ storage_dir[out.store].exists
  /\ \E i \in 1..Len(storage_dir[out.store].lines) : expired(storage_dir[out.store].lines[i])

\* ----------------------------------------------------------------------- C25
\* The lines of a file that a compaction at this time keeps.
unexpired(lines) == SelectSeq(lines, LAMBDA l : ~expired(l))

\* C25 (SpecSweep): the sweep compacts every store of the active area, the topic's and
\* the plain chat's alike: each store that can be read loses its expired lines and keeps
\* the others, whether or not another store cannot be read or another file of the area
\* has a name that does not parse; those files are left as they are, and the sweep's
\* total is the number of lines it removed.
C25_SweepCompactsEveryStore ==
  [][ out'.op = "sweep" =>
        /\ \A s \in SweepStores :
             (storage_dir[s].exists /\ ~read_raises(s))
               => storage_dir'[s] = [exists |-> TRUE, lines |-> unexpired(storage_dir[s].lines)]
        /\ \A s \in SweepStores : read_raises(s) => storage_dir'[s] = storage_dir[s]
        /\ storage_dir'[Backup] = storage_dir[Backup]
        /\ out'.total_cleaned =
             Cardinality({ <<s, i>> \in SweepStores \X (1..MaxAppends) :
                             /\ ~read_raises(s)
                             /\ i <= Len(storage_dir[s].lines)
                             /\ expired(storage_dir[s].lines[i]) }) ]_vars

\* A sweep has removed a record from one store while the other store, unreadable, keeps
\* its expired record and the area holds a file whose name does not parse.
C25_Witness ==
  /\ out.op = "sweep"
  /\ out.total_cleaned = 1
  /\ storage_dir[Backup].exists
  /\ \E s \in SweepStores :
       /\ file_name(s) \in faulty
       /\ \E i \in 1..Len(storage_dir[s].lines) : expired(storage_dir[s].lines[i])
  /\ \E s \in SweepStores :
       /\ file_name(s) \notin faulty
       /\ storage_dir[s].exists
       /\ Len(appended[s]) = 1
       /\ storage_dir[s].lines = <<>>

\* ----------------------------------------------------------------------- C26
\* C26 (SpecRenamed): a topic-created event sets the entry of its key to status open,
\* closed_at null and message_count 0 with the name of the event, whatever entry the key
\* had before (an open one, a closed one, one with counted messages).
C26_CreatedOverwritesEntry ==
  [][ \A k \in LogStores :
        (out'.op = "topic_created" /\ out'.store = k)
          => /\ topics_metadata'[k] # None
             /\ topics_metadata'[k][1].status = "open"
             /\ topics_metadata'[k][1].closed_at = None
             /\ topics_metadata'[k][1].message_count = 0
             /\ topics_metadata'[k][1].name = out'.name ]_vars

\* A topic whose messages were counted and archived at its closure has been announced
\* again under the other name.
C26_Witness ==
  /\ out.op = "topic_created"
  /\ out.name = "Roadmap"
  /\ topics_metadata[out.store][1].message_count = 0
  /\ archived_dir[out.store].exists
  /\ Len(archived_dir[out.store].lines) = 2

\* ----------------------------------------------------------------------- C27
\* C27 (SpecReset): a topic-closed event, a topic-reopened event and the count increment
\* of a recorded message for a key that has no entry leave the registry as it is: the
\* mapping is unchanged, the key still has no entry, and the handler ends without an
\* error.
C27_NoEntryNoOp ==
  [][ \A k \in LogStores :
        ( /\ topics_metadata[k] = None
          /\ out'.op \in {"topic_closed", "topic_reopened", "record", "record_lost"}
          /\ out'.store = k )
          => /\ topics_metadata' = topics_metadata
             /\ out'.op \in {"topic_closed", "topic_reopened"} => ~out'.error
             /\ out'.op \notin {"topic_closed", "topic_reopened"} => out'.op = "record" ]_vars

\* A topic without an entry has had two messages recorded and has then been closed: it
\* has no entry, and its store is where it was.
C27_Witness ==
  /\ out.op = "topic_closed"
  /\ ~out.error
  /\ topics_metadata[out.store] = None
  /\ storage_dir[out.store].exists
  /\ Len(storage_dir[out.store].lines) = 2

\* ----------------------------------------------------------------------- C28
\* C28 (SpecArea): an append, a scan, a manual compaction and the sweep leave every file
\* of the archived area as it is: none is created, deleted, renamed or modified.
C28_ArchivedAreaUntouched ==
  [][ out'.op \in {"record", "record_lost", "summary", "cleanup", "sweep"}
        => archived_dir' = archived_dir ]_vars

\* A sweep has removed an expired record from the active store of a topic whose archived
\* file holds an expired record too.
C28_Witness ==
  /\ out.op = "sweep"
  /\ out.total_cleaned = 1
  /\ \E k \in LogStores :
       /\ archived_dir[k].exists
       /\ \E i \in 1..Len(archived_dir[k].lines) : expired(archived_dir[k].lines[i])
       /\ storage_dir[k].exists
       /\ storage_dir[k].lines = <<>>

\* ----------------------------------------------------------------------- C29
\* closed_at is null exactly when status is open, in every entry of a mapping.
closed_at_iff_closed(metadata) ==
  \A k \in TopicKeys :
    metadata[k] # None =>
      /\ metadata[k][1].status \in {"open", "closed"}
      /\ metadata[k][1].closed_at = None <=> metadata[k][1].status = "open"

\* C29 (SpecReset): under topic-created, topic-closed and topic-reopened events, recorded
\* messages and resets, every entry of the registry, in memory and in the document, has
\* closed_at null if and only if its status is open.
C29_ClosedAtIffClosed ==
  /\ closed_at_iff_closed(topics_metadata)
  /\ closed_at_iff_closed(load_topics_metadata(topics_metadata_file))

\* A topic with two counted messages has been closed: its entry is closed, with the
\* time of the closure in closed_at, and its file is in the archived area.
C29_Witness ==
  /\ out.op = "topic_closed"
  /\ topics_metadata[out.store] # None
  /\ topics_metadata[out.store][1].status = "closed"
  /\ topics_metadata[out.store][1].closed_at = Some(now)
  /\ topics_metadata[out.store][1].message_count = 2
  /\ load_topics_metadata(topics_metadata_file) = topics_metadata
  /\ Len(archived_dir[out.store].lines) = 2

\* ----------------------------------------------------------------------- C30
\* The markers and the limits of the scans that are compared.
Markers == {None} \cup { Some(r) : r \in MsgIds }
Limits == {None, Some(1), Some(2)}

\* C30 (SpecCompacted): with the clock held fixed, a scan of a store returns the same
\* sequence immediately before and immediately after a compaction of that store, for
\* every marker and every limit, whatever lines the store holds.
C30_CompactionInvisibleToScan ==
  [][ \A store \in LogStores :
        (out'.op = "cleanup" /\ out'.store = store)
          => \A from_message_id \in Markers, limit \in Limits :
               load_from(storage_dir'[store], now, limit, from_message_id)
                 = load_from(storage_dir[store], now, limit, from_message_id) ]_vars

\* A compaction has removed a record from a store whose scan still returns a record.
C30_Witness ==
  /\ out.op = "cleanup"
  /\ out.removed_count >= 1
  /\ full_scan(out.store) # <<>>
  /\ \E r \in MsgIds : load_from(storage_dir[out.store], now, Some(1), Some(r)) # <<>>

\* ----------------------------------------------------------------------- C31
\* The lines of a record are in the file, in their order.
holds_record(file, r) ==
  /\ file.exists
  /\ \E i \in 1..Len(file.lines) :
       /\ i + Len(lines_of(r)) - 1 <= Len(file.lines)
       /\ SubSeq(file.lines, i, i + Len(lines_of(r)) - 1) = lines_of(r)

\* C31 (SpecCooperative): with the inbound handler and the sweep on one event loop, in
\* every interleaving of text messages and sweep steps, a record that store_message has
\* written, that is in the store when the sweep rewrites it and whose timestamp is at or
\* after the sweep's cutoff is in the store after the rewrite.
C31_SweepLosesNoRecord ==
  [][ \A s \in SweepStores :
        (sweeper.pc = "write" /\ sweeper.filename = s /\ sweeper'.pc = "next")
          => \A i \in 1..Len(appended[s]) :
               ( /\ appended[s][i].timestamp >= sweeper.cutoff_time
                 /\ holds_record(storage_dir[s], appended[s][i]) )
                 => holds_record(storage_dir'[s], appended[s][i]) ]_vars

\* A sweep that ran between two messages of a store has removed the first, expired, and
\* a later sweep has left the second, which was recorded after the first sweep.
C31_Witness ==
  /\ out.op = "sweep"
  /\ out.total_cleaned = 0
  /\ sweeper.pc = "idle"
  /\ \E s \in SweepStores :
       /\ Len(appended[s]) = 2
       /\ appended[s][1].timestamp < now - days_to_keep
       /\ ~holds_record(storage_dir[s], appended[s][1])
       /\ appended[s][2].timestamp >= now - days_to_keep
       /\ holds_record(storage_dir[s], appended[s][2])

\* ----------------------------------------------------------------------- C32
\* C32 (SpecGeneral): in a forum chat, a text message without a thread id is stored under
\* the sentinel topic 1, and a /summary sent from the same context (the chat, no thread
\* id) reads that store: it returns what the scan of topic 1's store from the marker
\* returns.
C32_SameStoreIdentity ==
  [][ \A c \in Chats :
        (out'.op = "summary" /\ out'.store = get_storage_filename(c, NoTopic))
          => out'.messages = load_messages(c, 1, None, Some(out'.from_message_id)) ]_vars

\* ----------------------------------------------------------------------- C33
\* C33 (SpecReset): a topic-closed event for a key that has an entry, an active file and
\* no archived file, followed at once by a topic-reopened event for the key, leaves the
\* active file with the content it had before the closure, no archived file, status open
\* and the message_count of before, so that a scan returns what it returned before.
C33_CloseReopenRoundTrip ==
  [][ \A k \in LogStores :
        ( /\ out.op = "topic_closed" /\ out.store = k
          /\ out.found.entry # None
          /\ out.found.active.exists
          /\ ~out.found.archived.exists
          /\ out'.op = "topic_reopened" /\ out'.store = k )
          => /\ ~out.error /\ ~out'.error
             /\ storage_dir'[k] = out.found.active
             /\ ~archived_dir'[k].exists
             /\ topics_metadata'[k] # None
             /\ topics_metadata'[k][1].status = "open"
             /\ topics_metadata'[k][1].closed_at = None
             /\ topics_metadata'[k][1].message_count = out.found.entry[1].message_count
             /\ load_from(storage_dir'[k], now, None, None)
                  = load_from(out.found.active, now, None, None) ]_vars

\* A topic with two counted messages has been closed and reopened: its archived file has
\* been moved back, and its entry is open with both messages counted.
C33_Witness ==
  /\ out.op = "topic_reopened"
  /\ out.restored
  /\ ~out.error
  /\ topics_metadata[out.store][1].status = "open"
  /\ topics_metadata[out.store][1].message_count = 2
  /\ Len(storage_dir[out.store].lines) = 2
  /\ ~archived_dir[out.store].exists

\* ----------------------------------------------------------------------- C34
\* The stores and keys a /reset in chat_id, thread thread_id, is about.
in_scope(chat_id, thread_id, k) ==
  k[1] = chat_id /\ (thread_id = NoTopic \/ k[2] = thread_id)

\* C34 (SpecScope): a /reset leaves alone what is outside its scope. A reset of one topic
\* leaves the active file, the archived file and the entry of every other key as they
\* were, and a reset of a whole chat those of every other chat, a chat whose id shares a
\* decimal prefix with the reset chat's id included.
C34_ResetConfinedToScope ==
  [][ out'.op = "reset"
        => /\ \A s \in StoreIds :
                ~in_scope(out'.chat_id, out'.thread_id, s)
                  => storage_dir'[s] = storage_dir[s]
           /\ \A k \in TopicKeys :
                ~in_scope(out'.chat_id, out'.thread_id, k)
                  => /\ archived_dir'[k] = archived_dir[k]
                     /\ topics_metadata'[k] = topics_metadata[k] ]_vars

\* Chat 4 has been reset as a whole while chat 42 holds an active file with a message, an
\* archived file and two entries: the files and entries of chat 4 are gone, those of chat
\* 42 are there.
C34_Witness ==
  /\ out.op = "reset" /\ out.chat_id = 4 /\ out.thread_id = NoTopic /\ ~out.error
  /\ \A k \in TopicKeys : k[1] = 4 => topics_metadata[k] = None
  /\ Len(appended[<<4, 5>>]) > 0
  /\ ~storage_dir[<<4, 5>>].exists
  /\ storage_dir[<<42, 5>>].exists /\ Len(storage_dir[<<42, 5>>].lines) = 1
  /\ archived_dir[<<42, 1>>].exists
  /\ topics_metadata[<<42, 5>>] # None
  /\ topics_metadata[<<42, 1>>] # None

====
